---- MODULE Spec2Model ----
(***************************************************************************)
(* Model of pkg/client/client.go (kpng EndpointsClient): the connect/retry *)
(* state machine (dial, postError), the protocol loop of NextCh, the       *)
(* grouping goroutine NextCh starts, Next's drain loop and Cancel.         *)
(*                                                                         *)
(* Threads: the caller (one call of Next/NextCh at a time, position pc),   *)
(* one grouping goroutine per completed round (grp[id]), the consumer of   *)
(* the channels NextCh returned, and whoever calls Cancel.  The transport  *)
(* and the server are the environment: every Dial, Watch, Send and Recv    *)
(* outcome is chosen nondeterministically.                                 *)
(***************************************************************************)
EXTENDS Integers, Sequences, FiniteSets, TLC

\* ---------------------------------------------------------------- bounds
\* Calls of Next/NextCh the caller makes in one behaviour.
MaxCalls == 2
\* Dial, Watch, Send and Recv failures the environment injects.
MaxFail == 1
\* Services of the large round of SpecBulk: one more than the channel holds.
BulkSize == 101
\* Steps of a traversal that go wrong because the tree was changed under it.
MaxOdd == 1

\* make(chan *ServiceEndpoints, 100) (line 113): capacity of the channel.
QueueCap == 100

\* ------------------------------------------------------------ data model
\* Paths are byte strings; kv orders them lexically.
Paths == { <<1>>, <<1, 1>>, <<2>> }
NoPath == << >>

\* Decoded message bodies; payload bytes 0 stand for bytes that do not parse.
Bodies == {1, 2}
BadBytes == 0
PayloadBytes == Bodies \cup {BadBytes}

\* Set_ServicesSet, Set_EndpointsSet and any other value of set.Ref.Set.
SetKinds == {"ServicesSet", "EndpointsSet", "OtherSet"}

\* The watch requests a caller may pass.
Reqs == {1, 2}

None == [kind |-> "none", body |-> 0]
Values == [kind : {"Service", "Endpoint"}, body : Bodies]

\* What a received operation did to the tree: a Set that did not decode or was
\* of an unknown set (drop), a Set at a new path (insert), at a path holding
\* another value (replace) or the same value (same); a Delete of an entry
\* (delete) or of a path the tree does not hold (noop).
OpEvents == {"drop", "insert", "replace", "same", "delete", "noop"}

\* kv.Less: lexical order of the paths.
RECURSIVE PathLess(_, _)
PathLess(a, b) ==
    IF b = << >> THEN FALSE
    ELSE IF a = << >> THEN TRUE
    ELSE IF Head(a) # Head(b) THEN Head(a) < Head(b)
    ELSE PathLess(Tail(a), Tail(b))

\* btree.New(2): an empty tree.
EmptyStore == [p \in Paths |-> None]

\* A large round holds, after every path of Paths, Services at the paths
\* <<3, 1>>, <<3, 2>>, ...; the tree holds the first bulk of them.
BulkValue == [kind |-> "Service", body |-> 1]

\* ReplaceOrInsert that leaves an entry the tree already holds as it is.
ReplaceOrInsert_InsertOnly(store, path, v) ==
    IF store[path] = None THEN [store EXCEPT ![path] = v] ELSE store

\* btree.ReplaceOrInsert(kv{path, v})
ReplaceOrInsert(store, path, v) == [store EXCEPT ![path] = v]

\* Delete that empties the tree when it does not hold the path.
Delete_MissClears(store, path) ==
    IF store[path] = None THEN EmptyStore ELSE [store EXCEPT ![path] = None]

\* btree.Delete(kv{Path: path})
Delete(store, path) == [store EXCEPT ![path] = None]

\* Decode without the continue of line 162: bytes that do not parse are kept.
Decode_KeepsUnparsed(setKind, bytes) ==
    IF setKind = "OtherSet" THEN None
    ELSE [kind |-> IF setKind = "ServicesSet" THEN "Service" ELSE "Endpoint",
          body |-> bytes]

\* proto.Unmarshal(set.Bytes, v) with v chosen by set.Ref.Set (lines 149-163):
\* the decoded value, or None when the set is unknown or the bytes do not parse.
Decode(setKind, bytes) ==
    IF setKind = "OtherSet" \/ bytes = BadBytes THEN None
    ELSE [kind |-> IF setKind = "ServicesSet" THEN "Service" ELSE "Endpoint",
          body |-> bytes]

\* The case *localnetv1.OpItem_Set of the receive loop (lines 145-165).
ApplySet(store, setKind, path, bytes) ==
    IF Decode(setKind, bytes) = None THEN store
    ELSE ReplaceOrInsert(store, path, Decode(setKind, bytes))

\* The case *localnetv1.OpItem_Delete (lines 167-168).
ApplyDelete(store, path) == Delete(store, path)

\* The event a Set or a Delete is, on the tree it is applied to.
SetEvent(store, setKind, path, bytes) ==
    IF Decode(setKind, bytes) = None THEN "drop"
    ELSE IF store[path] = None THEN "insert"
    ELSE IF store[path] = Decode(setKind, bytes) THEN "same"
    ELSE "replace"
DeleteEvent(store, path) == IF store[path] = None THEN "noop" ELSE "delete"

\* The next item btree.Ascend visits after the item at cur (NoPath: none yet).
Keys(store) == {p \in Paths : store[p] # None}
After(store, cur) == {p \in Keys(store) : cur = NoPath \/ PathLess(cur, p)}
HasNext(store, cur) == After(store, cur) # {}
NextKey(store, cur) ==
    CHOOSE p \in After(store, cur) : \A q \in After(store, cur) : q = p \/ PathLess(p, q)

\* var seps *ServiceEndpoints (line 178): nil, or a ServiceEndpoints.
NilSeps == [nil |-> TRUE, Service |-> None, Endpoints |-> << >>]
NewSeps(v) == [nil |-> FALSE, Service |-> v, Endpoints |-> << >>]
AppendEndpoint(seps, v) == [seps EXCEPT !.Endpoints = Append(@, v)]

\* Aggregates in path order, as the specification of the grouping states them:
\* one per Service entry, with the Endpoint entries that sort after it and
\* before the next Service entry.
RECURSIVE EndpointsAfter(_, _)
EndpointsAfter(store, cur) ==
    IF ~HasNext(store, cur) THEN << >>
    ELSE IF store[NextKey(store, cur)].kind = "Service" THEN << >>
    ELSE <<store[NextKey(store, cur)]>> \o EndpointsAfter(store, NextKey(store, cur))
RECURSIVE AggregatesAfter(_, _)
AggregatesAfter(store, cur) ==
    IF ~HasNext(store, cur) THEN << >>
    ELSE IF store[NextKey(store, cur)].kind = "Service"
         THEN << [Service |-> store[NextKey(store, cur)],
                  Endpoints |-> EndpointsAfter(store, NextKey(store, cur))] >>
              \o AggregatesAfter(store, NextKey(store, cur))
         ELSE AggregatesAfter(store, NextKey(store, cur))
ExpectedAggregates(store) == AggregatesAfter(store, NoPath)

\* ----------------------------------------------------------------- state
VARIABLES
    ctxDone,    \* epc.ctx.Err() != nil
    overlap,    \* the caller calls again while a goroutine of an earlier round runs
    watch,      \* epc.watch: "nil" or "open"
    conn,       \* epc.conn: "nil", "open" or "closed" (a closed connection)
    nOpen,      \* transport connections dialed and not closed
    dataNil,    \* epc.data == nil
    data,       \* the items of the tree epc.data points to, at the paths of Paths
    bulk,       \* and how many Services it holds at the paths after them
    pc,         \* where the caller is
    req,        \* the request of the call in flight
    results,    \* the channel of the call in flight (an index of chans)
    inNext,     \* the call in flight is NextCh called by Next
    items,      \* the list Next builds
    chans,      \* the channels NextCh made
    grp,        \* the grouping goroutines, one per channel: where each is, the
                \* tree it walks (attached: the one epc.data points to), the
                \* last item visited (cur, bcur), seps, whether the tree was
                \* changed under its walk (hit), the steps that went wrong (odd)
    crashed,    \* the process died of a panic
    nCalls,     \* calls of Next/NextCh so far
    nFail,      \* failures injected so far
    \* history, read by the properties only
    emitted,    \* per channel: every aggregate sent on it, in order
    sync,       \* per channel, taken at the Sync of its round: the effect of the
                \* operations received on the stream since its connect (expect),
                \* and whether no Set or Delete was received in the round
                \* (roundEmpty) or on the stream at all (streamEmpty)
    sinceConn,  \* effect of the operations received since the last connect
    stream,     \* the open stream: the last request sent on it, the last event
                \* on it ("opened", "sent", an OpEvents, "sync"), whether a Set
                \* or Delete was received on it
    call,       \* facts about the call in flight (or the last call)
    lastRet,    \* outcome of the last call of NextCh: "none", "canceled", "round"
    nextRet,    \* outcome of the last call of Next: "none", "canceled", "items"
    raced       \* a goroutine traversed a tree the caller was changing

vars == << ctxDone, overlap, watch, conn, nOpen, dataNil, data, bulk, pc, req, results,
           inNext, items, chans, grp, crashed, nCalls, nFail, emitted, sync,
           sinceConn, stream, call, lastRet, nextRet, raced >>

ChanIds == 1..MaxCalls

\* make(chan *ServiceEndpoints, 100) (line 113)
NewChan == [buf |-> << >>, closed |-> FALSE, closes |-> 0, lateSend |-> FALSE,
            owner |-> "none"]
NoGrouper == [pc |-> "none", attached |-> FALSE, snap |-> EmptyStore,
              snapBulk |-> 0, cur |-> NoPath, bcur |-> 0, seps |-> NilSeps,
              hit |-> FALSE, odd |-> 0]
NewCall == [startCanceled |-> FALSE, failedMidRound |-> FALSE,
            cancelInFlight |-> FALSE]
NoStream == [sent |-> 0, last |-> "none", ops |-> FALSE]
NoSync == [expect |-> EmptyStore, roundEmpty |-> FALSE, streamEmpty |-> FALSE]

\* New (lines 49-56): no connection, no stream, no tree, a live context.
\* o says how the caller uses the client: FALSE, it lets the goroutine of a
\* round finish and drains the channel before it calls again (Next always
\* does); TRUE, it may call again at once.
InitWith(o) ==
    /\ ctxDone = FALSE
    /\ overlap = o
    /\ watch = "nil"
    /\ conn = "nil"
    /\ nOpen = 0
    /\ dataNil = TRUE
    /\ data = EmptyStore
    /\ bulk = 0
    /\ pc = "idle"
    /\ req = 0
    /\ results = 0
    /\ inNext = FALSE
    /\ items = << >>
    /\ chans = [i \in ChanIds |-> NewChan]
    /\ grp = [i \in ChanIds |-> NoGrouper]
    /\ crashed = FALSE
    /\ nCalls = 0
    /\ nFail = 0
    /\ emitted = [i \in ChanIds |-> << >>]
    /\ sync = [i \in ChanIds |-> NoSync]
    /\ sinceConn = EmptyStore
    /\ stream = NoStream
    /\ call = NewCall
    /\ lastRet = "none"
    /\ nextRet = "none"
    /\ raced = FALSE

Init == InitWith(FALSE)


\* No grouping goroutine is running and every channel has been drained.
Quiet == \A i \in ChanIds : grp[i].pc \in {"none", "done"} /\ chans[i].buf = << >>

\* Channel i is closed and drained and its goroutine, if it had one, is over:
\* nothing refers to it any more, and its history is dropped at the next call.
Garbage(i) ==
    /\ chans[i].closed
    /\ chans[i].buf = << >>
    /\ grp[i].pc \in {"none", "done"}

\* ------------------------------------------------------- Next and NextCh
\* Next (line 95) or NextCh called: lines 113-117, make the channel and go to
\* dial() when there is no stream, else to the retry label.
CallNextCh(r, viaNext) ==
    /\ pc = "idle" /\ ~crashed
    /\ nCalls < MaxCalls
    /\ overlap \/ Quiet
    /\ nCalls' = nCalls + 1
    /\ results' = nCalls + 1
    /\ req' = r
    /\ inNext' = viaNext
    /\ items' = << >>
    /\ chans' = [i \in ChanIds |->
                    IF i = nCalls + 1
                    THEN [NewChan EXCEPT !.owner = IF viaNext THEN "next" ELSE "user"]
                    ELSE IF Garbage(i) THEN NewChan ELSE chans[i]]
    /\ grp' = [i \in ChanIds |-> IF Garbage(i) THEN NoGrouper ELSE grp[i]]
    /\ emitted' = [i \in ChanIds |-> IF Garbage(i) THEN << >> ELSE emitted[i]]
    /\ sync' = [i \in ChanIds |-> IF Garbage(i) THEN NoSync ELSE sync[i]]
    /\ call' = [NewCall EXCEPT !.startCanceled = ctxDone]
    /\ lastRet' = "none"
    /\ nextRet' = "none"
    /\ pc' = IF watch = "nil" THEN "dial" ELSE "retry"
    /\ UNCHANGED << ctxDone, overlap, watch, conn, nOpen, dataNil, data, bulk,
                    crashed, nFail, sinceConn, stream, raced >>

\* RetryCanceled without the check of line 120: on to the Send.
RetryCanceled_Ignored ==
    /\ pc = "retry" /\ ~crashed
    /\ ctxDone
    /\ pc' = "send"
    /\ UNCHANGED << ctxDone, overlap, watch, conn, nOpen, dataNil, data, bulk, req,
                    results, inNext, items, chans, grp, crashed, nCalls, nFail,
                    emitted, sync, sinceConn, stream, call, lastRet, nextRet, raced
                    >>

\* The retry label with a cancelled context (lines 120-124): close the channel
\* and return canceled; Next then returns no items (lines 97-99).
RetryCanceled ==
    /\ pc = "retry" /\ ~crashed
    /\ ctxDone
    /\ chans' = [chans EXCEPT ![results].closed = TRUE,
                              ![results].closes = @ + 1]
    /\ lastRet' = "canceled"
    /\ nextRet' = IF inNext THEN "canceled" ELSE nextRet
    /\ pc' = "idle"
    /\ UNCHANGED << ctxDone, overlap, watch, conn, nOpen, dataNil, data, bulk, req,
                    results, inNext, items, grp, crashed, nCalls, nFail, emitted,
                    sync, sinceConn, stream, call, raced >>

\* The retry label with a live context: on to the Send of line 127.
RetryLive ==
    /\ pc = "retry" /\ ~crashed
    /\ ~ctxDone
    /\ pc' = "send"
    /\ UNCHANGED << ctxDone, overlap, watch, conn, nOpen, dataNil, data, bulk, req,
                    results, inNext, items, chans, grp, crashed, nCalls, nFail,
                    emitted, sync, sinceConn, stream, call, lastRet, nextRet, raced
                    >>

\* epc.watch.Send(req) succeeds (line 127): the round begins.
SendOk ==
    /\ pc = "send" /\ ~crashed
    /\ watch = "open"
    /\ stream' = [stream EXCEPT !.sent = req, !.last = "sent"]
    /\ pc' = "recv"
    /\ UNCHANGED << ctxDone, overlap, watch, conn, nOpen, dataNil, data, bulk, req,
                    results, inNext, items, chans, grp, crashed, nCalls, nFail,
                    emitted, sync, sinceConn, call, lastRet, nextRet, raced >>

\* epc.watch.Send(req) fails (lines 128-131): postError, then the retry label.
\* A failure of a stream whose context is cancelled is the transport's doing
\* and is not counted against the failures the environment injects.
SendFail ==
    /\ pc = "send" /\ ~crashed
    /\ watch = "open"
    /\ ctxDone \/ nFail < MaxFail
    /\ nFail' = IF ctxDone THEN nFail ELSE nFail + 1
    /\ pc' = "posterr"
    /\ UNCHANGED << ctxDone, overlap, watch, conn, nOpen, dataNil, data, bulk, req,
                    results, inNext, items, chans, grp, crashed, nCalls, emitted,
                    sync, sinceConn, stream, call, lastRet, nextRet, raced >>

\* A goroutine is inside Ascend on the tree epc.data points to.
Traversing == \E i \in ChanIds : grp[i].pc = "ascend" /\ grp[i].attached

\* ReplaceOrInsert and Delete write the nodes of the tree with no lock (lines
\* 165, 168): every goroutine inside Ascend on that tree is hit.
Touch(g) ==
    [i \in ChanIds |->
        IF g[i].pc = "ascend" /\ g[i].attached THEN [g[i] EXCEPT !.hit = TRUE]
        ELSE g[i]]

\* epc.watch.Recv() returns a Set (lines 136, 145-165).
RecvSet(setKind, path, bytes) ==
    /\ pc = "recv" /\ ~crashed
    /\ watch = "open"
    /\ data' = ApplySet(data, setKind, path, bytes)
    /\ sinceConn' = IF Decode(setKind, bytes) = None THEN sinceConn
                    ELSE [sinceConn EXCEPT ![path] = Decode(setKind, bytes)]
    /\ raced' = (raced \/ (Traversing /\ Decode(setKind, bytes) # None))
    /\ grp' = IF Decode(setKind, bytes) # None THEN Touch(grp) ELSE grp
    /\ stream' = [stream EXCEPT !.last = SetEvent(data, setKind, path, bytes),
                                !.ops = TRUE]
    /\ UNCHANGED << ctxDone, overlap, watch, conn, nOpen, dataNil, bulk, pc, req,
                    results, inNext, items, chans, crashed, nCalls, nFail, emitted,
                    sync, call, lastRet, nextRet >>

\* epc.watch.Recv() returns a Delete (lines 136, 167-168).
RecvDelete(path) ==
    /\ pc = "recv" /\ ~crashed
    /\ watch = "open"
    /\ data' = ApplyDelete(data, path)
    /\ sinceConn' = [sinceConn EXCEPT ![path] = None]
    /\ raced' = (raced \/ Traversing)
    /\ grp' = Touch(grp)
    /\ stream' = [stream EXCEPT !.last = DeleteEvent(data, path), !.ops = TRUE]
    /\ UNCHANGED << ctxDone, overlap, watch, conn, nOpen, dataNil, bulk, pc, req,
                    results, inNext, items, chans, crashed, nCalls, nFail, emitted,
                    sync, call, lastRet, nextRet >>

\* epc.watch.Recv() returns the Set of the next Service of a large round
\* (lines 136, 145-165): ReplaceOrInsert adds it after the entries held.
RecvBulk ==
    /\ pc = "recv" /\ ~crashed
    /\ watch = "open"
    /\ bulk < BulkSize
    /\ bulk' = bulk + 1
    /\ raced' = (raced \/ Traversing)
    /\ grp' = Touch(grp)
    /\ stream' = [stream EXCEPT !.last = "insert", !.ops = TRUE]
    /\ UNCHANGED << ctxDone, overlap, watch, conn, nOpen, dataNil, data, pc, req,
                    results, inNext, items, chans, crashed, nCalls, nFail, emitted,
                    sync, sinceConn, call, lastRet, nextRet >>

\* RecvSync that empties the tree once the round is complete.
RecvSync_ClearsStore ==
    /\ pc = "recv" /\ ~crashed
    /\ watch = "open"
    /\ data' = EmptyStore
    /\ bulk' = 0
    /\ grp' = [grp EXCEPT ![results] = [NoGrouper EXCEPT !.pc = "start"]]
    /\ sync' = [sync EXCEPT ![results] = [expect |-> sinceConn,
                                          roundEmpty |-> stream.last = "sent",
                                          streamEmpty |-> ~stream.ops]]
    /\ stream' = [stream EXCEPT !.last = "sync"]
    /\ lastRet' = "round"
    /\ pc' = IF inNext THEN "drain" ELSE "idle"
    /\ UNCHANGED << ctxDone, overlap, watch, conn, nOpen, dataNil, req, results,
                    inNext, items, chans, crashed, nCalls, nFail, emitted,
                    sinceConn, call, nextRet, raced >>

\* epc.watch.Recv() returns a Sync (lines 136, 170-171, 175-200): leave the
\* loop, start the grouping goroutine on the channel and return it; Next goes
\* on to its drain loop (lines 101-105).
RecvSync ==
    /\ pc = "recv" /\ ~crashed
    /\ watch = "open"
    /\ grp' = [grp EXCEPT ![results] = [NoGrouper EXCEPT !.pc = "start"]]
    /\ sync' = [sync EXCEPT ![results] = [expect |-> sinceConn,
                                          roundEmpty |-> stream.last = "sent",
                                          streamEmpty |-> ~stream.ops]]
    /\ stream' = [stream EXCEPT !.last = "sync"]
    /\ lastRet' = "round"
    /\ pc' = IF inNext THEN "drain" ELSE "idle"
    /\ UNCHANGED << ctxDone, overlap, watch, conn, nOpen, dataNil, data, bulk, req,
                    results, inNext, items, chans, crashed, nCalls, nFail, emitted,
                    sinceConn, call, nextRet, raced >>

\* RecvFail with the error taken for the end of the round: the loop is left
\* and the channel returned as if a Sync had come.
RecvFail_EndsRound ==
    /\ pc = "recv" /\ ~crashed
    /\ watch = "open"
    /\ ctxDone \/ nFail < MaxFail
    /\ nFail' = IF ctxDone THEN nFail ELSE nFail + 1
    /\ grp' = [grp EXCEPT ![results] = [NoGrouper EXCEPT !.pc = "start"]]
    /\ sync' = [sync EXCEPT ![results] = [expect |-> sinceConn,
                                          roundEmpty |-> stream.last = "sent",
                                          streamEmpty |-> ~stream.ops]]
    /\ lastRet' = "round"
    /\ pc' = IF inNext THEN "drain" ELSE "idle"
    /\ UNCHANGED << ctxDone, overlap, watch, conn, nOpen, dataNil, data, bulk, req,
                    results, inNext, items, chans, crashed, nCalls, emitted,
                    sinceConn, stream, call, nextRet, raced >>

\* epc.watch.Recv() fails (lines 138-142): postError, then the retry label.
RecvFail ==
    /\ pc = "recv" /\ ~crashed
    /\ watch = "open"
    /\ ctxDone \/ nFail < MaxFail
    /\ nFail' = IF ctxDone THEN nFail ELSE nFail + 1
    /\ call' = [call EXCEPT !.failedMidRound = (@ \/ stream.last \in OpEvents)]
    /\ pc' = "posterr"
    /\ UNCHANGED << ctxDone, overlap, watch, conn, nOpen, dataNil, data, bulk, req,
                    results, inNext, items, chans, grp, crashed, nCalls, emitted,
                    sync, sinceConn, stream, lastRet, nextRet, raced >>

\* ------------------------------------------------------ dial, postError
\* DialCanceled without the check of lines 252-255: the dial goes ahead.
DialCanceled_Dials ==
    /\ pc = "dial" /\ ~crashed
    /\ ctxDone
    /\ conn' = "open"
    /\ nOpen' = nOpen + 1
    /\ pc' = "watch"
    /\ UNCHANGED << ctxDone, overlap, watch, dataNil, data, bulk, req, results,
                    inNext, items, chans, grp, crashed, nCalls, nFail, emitted,
                    sync, sinceConn, stream, call, lastRet, nextRet, raced >>

\* Dial with a cancelled context (lines 252-255, 264-265): dial returns true.
\* Both callers of dial (lines 116 and 309) go on to the retry label.
DialCanceled ==
    /\ pc = "dial" /\ ~crashed
    /\ ctxDone
    /\ pc' = "retry"
    /\ UNCHANGED << ctxDone, overlap, watch, conn, nOpen, dataNil, data, bulk, req,
                    results, inNext, items, chans, grp, crashed, nCalls, nFail,
                    emitted, sync, sinceConn, stream, call, lastRet, nextRet, raced
                    >>

\* DialContext succeeds (lines 257, 262, 272): epc.conn is the new connection.
DialOk ==
    /\ pc = "dial" /\ ~crashed
    /\ ~ctxDone
    /\ conn' = "open"
    /\ nOpen' = nOpen + 1
    /\ pc' = "watch"
    /\ UNCHANGED << ctxDone, overlap, watch, dataNil, data, bulk, req, results,
                    inNext, items, chans, grp, crashed, nCalls, nFail, emitted,
                    sync, sinceConn, stream, call, lastRet, nextRet, raced >>

\* DialContext fails (lines 266-269): errorSleep, then dial again.
DialFail ==
    /\ pc = "dial" /\ ~crashed
    /\ ~ctxDone
    /\ nFail < MaxFail
    /\ nFail' = nFail + 1
    /\ pc' = "sleep"
    /\ UNCHANGED << ctxDone, overlap, watch, conn, nOpen, dataNil, data, bulk, req,
                    results, inNext, items, chans, grp, crashed, nCalls, emitted,
                    sync, sinceConn, stream, call, lastRet, nextRet, raced >>

\* The goroutines inside Ascend keep the tree they started on when epc.data
\* is pointed to a new one.
Detach(g) ==
    [i \in ChanIds |->
        IF g[i].pc = "ascend" /\ g[i].attached
        THEN [g[i] EXCEPT !.attached = FALSE, !.snap = data, !.snapBulk = bulk]
        ELSE g[i]]

\* WatchOk without line 283: the tree of the previous connection is kept.
WatchOk_KeepsStore ==
    /\ pc = "watch" /\ ~crashed
    /\ watch' = "open"
    /\ dataNil' = FALSE
    /\ sinceConn' = EmptyStore
    /\ stream' = [sent |-> 0, last |-> "opened", ops |-> FALSE]
    /\ pc' = "retry"
    /\ UNCHANGED << ctxDone, overlap, conn, nOpen, data, bulk, req, results, inNext,
                    items, chans, grp, crashed, nCalls, nFail, emitted, sync, call,
                    lastRet, nextRet, raced >>

\* Watch succeeds (lines 273, 283-286): epc.watch is the stream, epc.data a new
\* empty tree, dial returns false.  dial does not look at the context between
\* Dial and Watch, and whether Watch fails on a cancelled context is the
\* transport's choice: both outcomes are possible.
WatchOk ==
    /\ pc = "watch" /\ ~crashed
    /\ watch' = "open"
    /\ dataNil' = FALSE
    /\ data' = EmptyStore
    /\ bulk' = 0
    /\ sinceConn' = EmptyStore
    /\ grp' = Detach(grp)
    /\ stream' = [sent |-> 0, last |-> "opened", ops |-> FALSE]
    /\ pc' = "retry"
    /\ UNCHANGED << ctxDone, overlap, conn, nOpen, req, results, inNext, items,
                    chans, crashed, nCalls, nFail, emitted, sync, call, lastRet,
                    nextRet, raced >>

\* WatchFail without the conn.Close() of line 276.
WatchFail_LeavesOpen ==
    /\ pc = "watch" /\ ~crashed
    /\ ctxDone \/ nFail < MaxFail
    /\ nFail' = IF ctxDone THEN nFail ELSE nFail + 1
    /\ watch' = "nil"
    /\ stream' = NoStream
    /\ pc' = "sleep"
    /\ UNCHANGED << ctxDone, overlap, conn, nOpen, dataNil, data, bulk, req,
                    results, inNext, items, chans, grp, crashed, nCalls, emitted,
                    sync, sinceConn, call, lastRet, nextRet, raced >>

\* Watch fails (lines 273-281): epc.watch is nil, the connection is closed
\* (epc.conn still refers to it), errorSleep, then dial again.
WatchFail ==
    /\ pc = "watch" /\ ~crashed
    /\ ctxDone \/ nFail < MaxFail
    /\ nFail' = IF ctxDone THEN nFail ELSE nFail + 1
    /\ watch' = "nil"
    /\ conn' = "closed"
    /\ nOpen' = nOpen - 1
    /\ stream' = NoStream
    /\ pc' = "sleep"
    /\ UNCHANGED << ctxDone, overlap, dataNil, data, bulk, req, results, inNext,
                    items, chans, grp, crashed, nCalls, emitted, sync, sinceConn,
                    call, lastRet, nextRet, raced >>

\* errorSleep (lines 289-291) is over: dial's retry label (line 261), or the
\* dial() of postError (line 309).
ErrorSleep ==
    /\ pc = "sleep" /\ ~crashed
    /\ pc' = "dial"
    /\ UNCHANGED << ctxDone, overlap, watch, conn, nOpen, dataNil, data, bulk, req,
                    results, inNext, items, chans, grp, crashed, nCalls, nFail,
                    emitted, sync, sinceConn, stream, call, lastRet, nextRet, raced
                    >>

\* PostError without lines 308-309: the stream is closed and not dialed again.
PostError_NoRedial ==
    /\ pc = "posterr" /\ ~crashed
    /\ watch' = "nil"
    /\ conn' = "nil"
    /\ nOpen' = IF conn = "open" THEN nOpen - 1 ELSE nOpen
    /\ stream' = NoStream
    /\ pc' = "retry"
    /\ UNCHANGED << ctxDone, overlap, dataNil, data, bulk, req, results, inNext,
                    items, chans, grp, crashed, nCalls, nFail, emitted, sync,
                    sinceConn, call, lastRet, nextRet, raced >>

\* postError (lines 293-310): close and forget the stream and the connection;
\* return when the context is cancelled, else errorSleep and dial.
PostError ==
    /\ pc = "posterr" /\ ~crashed
    /\ watch' = "nil"
    /\ conn' = "nil"
    /\ nOpen' = IF conn = "open" THEN nOpen - 1 ELSE nOpen
    /\ stream' = NoStream
    /\ pc' = IF ctxDone THEN "retry" ELSE "sleep"
    /\ UNCHANGED << ctxDone, overlap, dataNil, data, bulk, req, results, inNext,
                    items, chans, grp, crashed, nCalls, nFail, emitted, sync,
                    sinceConn, call, lastRet, nextRet, raced >>

\* Cancel (lines 204-206): cancel the context; a second call changes nothing.
Cancel ==
    /\ ~crashed
    /\ ctxDone' = TRUE
    /\ call' = [call EXCEPT !.cancelInFlight = (@ \/ pc \notin {"idle", "drain"})]
    /\ UNCHANGED << overlap, watch, conn, nOpen, dataNil, data, bulk, pc, req,
                    results, inNext, items, chans, grp, crashed, nCalls, nFail,
                    emitted, sync, sinceConn, stream, lastRet, nextRet, raced >>

\* -------------------------------------------------- the grouping goroutine
\* The tree goroutine i walks, as it is now: the one epc.data points to, or
\* the one it pointed to when dial made a new one (line 283).
TreeOf(i) == IF grp[i].attached THEN data ELSE grp[i].snap
BulkOf(i) == IF grp[i].attached THEN bulk ELSE grp[i].snapBulk

\* Ascend has visited every item of the tree.
AtEnd(i) == ~HasNext(TreeOf(i), grp[i].cur) /\ grp[i].bcur >= BulkOf(i)

\* The tree was written while goroutine i was inside Ascend: a data race,
\* whose outcome is not defined.  The walk may go on as if nothing happened,
\* visit an entry again, skip entries, leave early or panic inside btree.
Astray(i) == grp[i].hit /\ grp[i].odd < MaxOdd

\* The items Ascend may visit next: the one after the last visited and, on a
\* tree written under the walk, any entry of the tree.
Visit(i) ==
    (IF HasNext(TreeOf(i), grp[i].cur)
     THEN {NextKey(TreeOf(i), grp[i].cur)} ELSE {})
    \cup (IF Astray(i) THEN Keys(TreeOf(i)) ELSE {})

\* The steps of the walk of goroutine i that went wrong, once it visits k.
OddAt(i, k) ==
    IF HasNext(TreeOf(i), grp[i].cur) /\ k = NextKey(TreeOf(i), grp[i].cur)
    THEN grp[i].odd ELSE grp[i].odd + 1

\* results <- seps (lines 184 and 196); blocks while the channel is full.
CanSend(i) == Len(chans[i].buf) < QueueCap
ChanSend(c, i, seps) ==
    [c EXCEPT ![i].buf = Append(@, [Service |-> seps.Service,
                                    Endpoints |-> seps.Endpoints]),
              ![i].lateSend = (@ \/ c[i].closed)]
Emit(e, i, seps) ==
    [e EXCEPT ![i] = Append(@, [Service |-> seps.Service,
                                Endpoints |-> seps.Endpoints])]

\* close(results): line 122, and the deferred close of line 176.
ChanClose(c, i) == [c EXCEPT ![i].closed = TRUE, ![i].closes = @ + 1]

\* The goroutine starts (lines 175-180): it reads epc.data and enters Ascend.
GrouperStart(i) ==
    /\ ~crashed
    /\ grp[i].pc = "start"
    /\ grp' = [grp EXCEPT ![i].pc = "ascend", ![i].attached = TRUE]
    /\ UNCHANGED << ctxDone, overlap, watch, conn, nOpen, dataNil, data, bulk, pc,
                    req, results, inNext, items, chans, crashed, nCalls, nFail,
                    emitted, sync, sinceConn, stream, call, lastRet, nextRet, raced
                    >>

\* Ascend visits a Service (lines 182-187): send the aggregate being built, if
\* any, and start a new one.
GrouperService(i) ==
    /\ ~crashed
    /\ grp[i].pc = "ascend"
    /\ \E k \in Visit(i) :
          /\ TreeOf(i)[k].kind = "Service"
          /\ grp[i].seps.nil \/ CanSend(i)
          /\ chans' = IF grp[i].seps.nil THEN chans
                      ELSE ChanSend(chans, i, grp[i].seps)
          /\ emitted' = IF grp[i].seps.nil THEN emitted
                        ELSE Emit(emitted, i, grp[i].seps)
          /\ grp' = [grp EXCEPT ![i].cur = k, ![i].seps = NewSeps(TreeOf(i)[k]),
                                ![i].odd = OddAt(i, k)]
    /\ UNCHANGED << ctxDone, overlap, watch, conn, nOpen, dataNil, data, bulk, pc,
                    req, results, inNext, items, crashed, nCalls, nFail, sync,
                    sinceConn, stream, call, lastRet, nextRet, raced >>

\* Ascend visits a Service of a large round, after the entries at the paths of
\* Paths (lines 182-187).
GrouperBulk(i) ==
    /\ ~crashed
    /\ grp[i].pc = "ascend"
    /\ ~HasNext(TreeOf(i), grp[i].cur)
    /\ grp[i].bcur < BulkOf(i)
    /\ grp[i].seps.nil \/ CanSend(i)
    /\ chans' = IF grp[i].seps.nil THEN chans ELSE ChanSend(chans, i, grp[i].seps)
    /\ emitted' = IF grp[i].seps.nil THEN emitted ELSE Emit(emitted, i, grp[i].seps)
    /\ grp' = [grp EXCEPT ![i].bcur = @ + 1, ![i].seps = NewSeps(BulkValue)]
    /\ UNCHANGED << ctxDone, overlap, watch, conn, nOpen, dataNil, data, bulk, pc,
                    req, results, inNext, items, crashed, nCalls, nFail, sync,
                    sinceConn, stream, call, lastRet, nextRet, raced >>

\* Ascend visits an Endpoint while an aggregate is being built (lines 188-189).
GrouperEndpoint(i) ==
    /\ ~crashed
    /\ grp[i].pc = "ascend"
    /\ \E k \in Visit(i) :
          /\ TreeOf(i)[k].kind = "Endpoint"
          /\ ~grp[i].seps.nil
          /\ grp' = [grp EXCEPT ![i].cur = k,
                                ![i].seps = AppendEndpoint(@, TreeOf(i)[k]),
                                ![i].odd = OddAt(i, k)]
    /\ UNCHANGED << ctxDone, overlap, watch, conn, nOpen, dataNil, data, bulk, pc,
                    req, results, inNext, items, chans, crashed, nCalls, nFail,
                    emitted, sync, sinceConn, stream, call, lastRet, nextRet, raced
                    >>

\* Ascend visits an Endpoint while seps is nil (line 189): seps.Endpoints
\* dereferences a nil pointer.  The goroutine panics; its deferred
\* close(results) (line 176) runs while the panic unwinds.
GrouperOrphan(i) ==
    /\ ~crashed
    /\ grp[i].pc = "ascend"
    /\ \E k \in Visit(i) :
          /\ TreeOf(i)[k].kind = "Endpoint"
          /\ grp[i].seps.nil
          /\ grp' = [grp EXCEPT ![i].cur = k, ![i].pc = "panic",
                                ![i].odd = OddAt(i, k)]
    /\ chans' = ChanClose(chans, i)
    /\ UNCHANGED << ctxDone, overlap, watch, conn, nOpen, dataNil, data, bulk, pc,
                    req, results, inNext, items, crashed, nCalls, nFail, emitted,
                    sync, sinceConn, stream, call, lastRet, nextRet, raced >>

\* Ascend panics inside btree on a tree that was written under it (line 180);
\* the deferred close(results) (line 176) runs while the panic unwinds.
GrouperTorn(i) ==
    /\ ~crashed
    /\ grp[i].pc = "ascend"
    /\ grp[i].hit
    /\ grp' = [grp EXCEPT ![i].pc = "panic"]
    /\ chans' = ChanClose(chans, i)
    /\ UNCHANGED << ctxDone, overlap, watch, conn, nOpen, dataNil, data, bulk, pc,
                    req, results, inNext, items, crashed, nCalls, nFail, emitted,
                    sync, sinceConn, stream, call, lastRet, nextRet, raced >>

\* A panic no one recovers ends the process.
Crash(i) ==
    /\ ~crashed
    /\ grp[i].pc = "panic"
    /\ crashed' = TRUE
    /\ UNCHANGED << ctxDone, overlap, watch, conn, nOpen, dataNil, data, bulk, pc,
                    req, results, inNext, items, chans, grp, nCalls, nFail, emitted,
                    sync, sinceConn, stream, call, lastRet, nextRet, raced >>

\* Ascend returns (lines 180-193): it has visited every item, or it leaves
\* early on a tree that was written under it.  From here on the goroutine
\* reads the tree no more.
GrouperLeave(i) ==
    /\ ~crashed
    /\ grp[i].pc = "ascend"
    /\ AtEnd(i) \/ Astray(i)
    /\ grp' = [grp EXCEPT ![i].pc = "flush",
                          ![i].odd = IF AtEnd(i) THEN @ ELSE @ + 1]
    /\ UNCHANGED << ctxDone, overlap, watch, conn, nOpen, dataNil, data, bulk, pc,
                    req, results, inNext, items, chans, crashed, nCalls, nFail,
                    emitted, sync, sinceConn, stream, call, lastRet, nextRet, raced
                    >>

\* GrouperFinish with the close before the last send.
GrouperFinish_ClosesFirst(i) ==
    /\ ~crashed
    /\ grp[i].pc = "flush"
    /\ grp[i].seps.nil \/ CanSend(i)
    /\ chans' = IF grp[i].seps.nil THEN ChanClose(chans, i)
                ELSE ChanSend(ChanClose(chans, i), i, grp[i].seps)
    /\ emitted' = IF grp[i].seps.nil THEN emitted ELSE Emit(emitted, i, grp[i].seps)
    /\ grp' = [grp EXCEPT ![i].pc = "done"]
    /\ UNCHANGED << ctxDone, overlap, watch, conn, nOpen, dataNil, data, bulk, pc,
                    req, results, inNext, items, crashed, nCalls, nFail, sync,
                    sinceConn, stream, call, lastRet, nextRet, raced >>

\* After Ascend (lines 195-198, 176): send the last aggregate, if any, waiting
\* while the channel is full, and close the channel.
GrouperFinish(i) ==
    /\ ~crashed
    /\ grp[i].pc = "flush"
    /\ grp[i].seps.nil \/ CanSend(i)
    /\ chans' = ChanClose(IF grp[i].seps.nil THEN chans
                          ELSE ChanSend(chans, i, grp[i].seps), i)
    /\ emitted' = IF grp[i].seps.nil THEN emitted ELSE Emit(emitted, i, grp[i].seps)
    /\ grp' = [grp EXCEPT ![i].pc = "done"]
    /\ UNCHANGED << ctxDone, overlap, watch, conn, nOpen, dataNil, data, bulk, pc,
                    req, results, inNext, items, crashed, nCalls, nFail, sync,
                    sinceConn, stream, call, lastRet, nextRet, raced >>

\* ------------------------------------------------------------- consumers
\* Next's range loop takes an aggregate (lines 103-105).
DrainTake ==
    /\ pc = "drain" /\ ~crashed
    /\ chans[results].buf # << >>
    /\ items' = Append(items, Head(chans[results].buf))
    /\ chans' = [chans EXCEPT ![results].buf = Tail(@)]
    /\ UNCHANGED << ctxDone, overlap, watch, conn, nOpen, dataNil, data, bulk, pc,
                    req, results, inNext, grp, crashed, nCalls, nFail, emitted,
                    sync, sinceConn, stream, call, lastRet, nextRet, raced >>

\* Next's range loop ends on the closed, empty channel (lines 103, 107).
DrainDone ==
    /\ pc = "drain" /\ ~crashed
    /\ chans[results].buf = << >>
    /\ chans[results].closed
    /\ nextRet' = "items"
    /\ pc' = "idle"
    /\ UNCHANGED << ctxDone, overlap, watch, conn, nOpen, dataNil, data, bulk, req,
                    results, inNext, items, chans, grp, crashed, nCalls, nFail,
                    emitted, sync, sinceConn, stream, call, lastRet, raced >>

\* The caller of NextCh takes an aggregate from a channel it was given.
Consume(i) ==
    /\ ~crashed
    /\ chans[i].owner = "user"
    /\ chans[i].buf # << >>
    /\ chans' = [chans EXCEPT ![i].buf = Tail(@)]
    /\ UNCHANGED << ctxDone, overlap, watch, conn, nOpen, dataNil, data, bulk, pc,
                    req, results, inNext, items, grp, crashed, nCalls, nFail,
                    emitted, sync, sinceConn, stream, call, lastRet, nextRet, raced
                    >>

\* ------------------------------------------------------- specifications
Next ==
    \/ \E r \in Reqs, viaNext \in BOOLEAN : CallNextCh(r, viaNext)
    \/ RetryCanceled
    \/ RetryLive
    \/ SendOk
    \/ SendFail
    \/ \E k \in SetKinds, p \in Paths, b \in PayloadBytes : RecvSet(k, p, b)
    \/ \E p \in Paths : RecvDelete(p)
    \/ RecvSync
    \/ RecvFail
    \/ DialCanceled
    \/ DialOk
    \/ DialFail
    \/ WatchOk
    \/ WatchFail
    \/ ErrorSleep
    \/ PostError
    \/ Cancel
    \/ \E i \in ChanIds : GrouperStart(i)
    \/ \E i \in ChanIds : GrouperService(i)
    \/ \E i \in ChanIds : GrouperEndpoint(i)
    \/ \E i \in ChanIds : GrouperOrphan(i)
    \/ \E i \in ChanIds : GrouperLeave(i)
    \/ \E i \in ChanIds : GrouperFinish(i)
    \/ \E i \in ChanIds : Crash(i)
    \/ DrainTake
    \/ DrainDone
    \/ \E i \in ChanIds : Consume(i)

Spec == Init /\ [][Next]_vars

\* The client used by a caller that calls NextCh again without waiting for
\* the goroutine of the previous round, reads no channel and never cancels;
\* the only failures are those of Recv, and the server keeps to the first
\* paths, to the sets the client knows and to one body.
InitOverlap == InitWith(TRUE)
OverlapKinds == {"ServicesSet", "EndpointsSet"}
OverlapPaths == { <<1>>, <<1, 1>> }
OverlapBytes == {1}

NextOverlap ==
    \/ CallNextCh(1, FALSE)
    \/ RetryLive
    \/ SendOk
    \/ \E k \in OverlapKinds, p \in OverlapPaths, b \in OverlapBytes : RecvSet(k, p, b)
    \/ \E p \in OverlapPaths : RecvDelete(p)
    \/ RecvSync
    \/ RecvFail
    \/ DialOk
    \/ WatchOk
    \/ ErrorSleep
    \/ PostError
    \/ \E i \in ChanIds : GrouperStart(i)
    \/ \E i \in ChanIds : GrouperService(i)
    \/ \E i \in ChanIds : GrouperEndpoint(i)
    \/ \E i \in ChanIds : GrouperOrphan(i)
    \/ \E i \in ChanIds : GrouperTorn(i)
    \/ \E i \in ChanIds : GrouperLeave(i)
    \/ \E i \in ChanIds : GrouperFinish(i)
    \/ \E i \in ChanIds : Crash(i)

SpecOverlap == InitOverlap /\ [][NextOverlap]_vars

\* The server ends the round once it has sent the Services of a large round.
BulkSync == bulk = BulkSize /\ RecvSync

\* The client with a server whose rounds are large: BulkSize Services, more
\* than the channel holds.  The transport fails and answers a cancellation as
\* it does in Spec.  The caller of Next drains the channel; the caller of
\* NextCh has stopped reading.
NextBulk ==
    \/ \E viaNext \in BOOLEAN : CallNextCh(1, viaNext)
    \/ RetryCanceled
    \/ RetryLive
    \/ SendOk
    \/ SendFail
    \/ RecvBulk
    \/ BulkSync
    \/ RecvFail
    \/ DialCanceled
    \/ DialOk
    \/ DialFail
    \/ WatchOk
    \/ WatchFail
    \/ ErrorSleep
    \/ PostError
    \/ Cancel
    \/ \E i \in ChanIds : GrouperStart(i)
    \/ \E i \in ChanIds : GrouperBulk(i)
    \/ \E i \in ChanIds : GrouperLeave(i)
    \/ \E i \in ChanIds : GrouperFinish(i)
    \/ DrainTake
    \/ DrainDone

SpecBulk == Init /\ [][NextBulk]_vars

\* A call the caller is blocked in returns: Dial, Watch, Send and the sleep
\* end, and Next's loop takes what is in the channel.  Recv is not among
\* them: it returns when the server or the transport makes it.
CallerStep ==
    \/ RetryCanceled \/ RetryLive
    \/ SendOk \/ SendFail
    \/ DialCanceled \/ DialOk \/ DialFail
    \/ WatchOk \/ WatchFail
    \/ ErrorSleep \/ PostError
    \/ DrainTake \/ DrainDone

\* The scheduler runs the goroutine of channel i.
GoroutineStep(i) ==
    \/ GrouperStart(i) \/ GrouperService(i) \/ GrouperBulk(i)
    \/ GrouperEndpoint(i) \/ GrouperOrphan(i) \/ GrouperLeave(i)
    \/ GrouperFinish(i) \/ Crash(i)

\* The stream was opened with epc.ctx (line 273): once the context is
\* cancelled a Recv on it fails.
RecvCanceled == ctxDone /\ RecvFail

\* Fair scheduling, and a transport that honours the cancellation.
LiveCancel ==
    /\ Spec
    /\ WF_vars(CallerStep)
    /\ \A i \in ChanIds : WF_vars(GoroutineStep(i))
    /\ WF_vars(RecvCanceled)

\* The same, with the server of SpecBulk.
LiveBulk ==
    /\ SpecBulk
    /\ WF_vars(CallerStep)
    /\ \A i \in ChanIds : WF_vars(GoroutineStep(i))
    /\ WF_vars(RecvCanceled)

\* Fair scheduling, and a server that ends the round it was asked for.
LiveRetry ==
    /\ Spec
    /\ WF_vars(CallerStep)
    /\ \A i \in ChanIds : WF_vars(GoroutineStep(i))
    /\ WF_vars(RecvSync)

\* ----------------------------------------------------------- properties
\* The call of NextCh has returned (Next may still be draining the channel).
Returned == nCalls > 0 /\ pc \in {"idle", "drain"}
\* The goroutine of channel i has stopped, by finishing or by panicking.
Stopped(i) == grp[i].pc \in {"done", "panic"}

\* C1: grouping correctness.  Once the goroutine of a round has stopped, the
\* aggregates it emitted are, in path order, one per surviving Service entry
\* with the surviving Endpoint entries that sort between it and the next
\* Service entry, each list in path order.
C1_GroupingCorrect ==
    \A i \in ChanIds :
        Stopped(i) => emitted[i] = ExpectedAggregates(sync[i].expect)

\* C2: orphan endpoint.  An Endpoint entry met while no aggregate is being
\* built is dropped: no goroutine ever panics and the process never dies.
C2_OrphanDropped ==
    /\ ~crashed
    /\ \A i \in ChanIds : grp[i].pc # "panic"

\* C3: outcomes of NextCh.  Whenever NextCh has returned, either it returned
\* canceled with a cancelled context and a closed (and empty) channel, or it
\* returned a round, and then the stream is open and the last event on it is
\* the Sync; no failure makes it return.
C3_ReturnOutcomes ==
    Returned =>
        \/ /\ lastRet = "canceled"
           /\ ctxDone
           /\ chans[results].closed
           /\ chans[results].buf = << >>
           /\ emitted[results] = << >>
        \/ /\ lastRet = "round"
           /\ watch = "open"
           /\ conn = "open"
           /\ stream.last = "sync"

\* A round was returned although a failure had to be retried inside the call.
C3_Witness ==
    /\ Returned
    /\ lastRet = "round"
    /\ nFail > 0
    /\ ~ctxDone

\* C4: reconnect restart.  When NextCh returns a round after a Send or Recv
\* failed in the middle of a round of the same call, the stream is open again,
\* the request of the call was sent on it, the tree holds exactly the effect
\* of the operations received since that reconnect, and so do the aggregates
\* emitted.
C4_ReconnectRestart ==
    (Returned /\ lastRet = "round" /\ call.failedMidRound) =>
        /\ watch = "open"
        /\ stream.sent = req
        /\ ~dataNil
        /\ data = sinceConn
        /\ sync[results].expect = sinceConn
        /\ grp[results].pc = "done" =>
               emitted[results] = ExpectedAggregates(sinceConn)

\* A round that was restarted after operations had been applied, whose
\* aggregates have all been emitted.
C4_Witness ==
    /\ Returned
    /\ lastRet = "round"
    /\ call.failedMidRound
    /\ grp[results].pc = "done"
    /\ emitted[results] # << >>

\* A call of NextCh (by the caller or by Next) has not returned yet.
InFlight == nCalls > 0 /\ pc \notin {"idle", "drain"}

\* C5: cancellation liveness.  A call of NextCh during which Cancel was called
\* (while it dials, sleeps after an error, sends or receives) returns canceled,
\* with a closed and empty channel.
C5_CancelReturnsCanceled ==
    (Returned /\ call.cancelInFlight) =>
        /\ lastRet = "canceled"
        /\ chans[results].closed
        /\ chans[results].buf = << >>

\* C6: retry liveness.  With failures that come to an end and a server that
\* sends the Sync, a call of NextCh in flight returns a round unless the
\* context is cancelled; no number of failures makes it give up.
C6_RetryUntilRound ==
    InFlight ~> ((Returned /\ lastRet = "round") \/ ctxDone)

\* A round was returned after every failure the environment had in store.
C6_Witness ==
    /\ Returned
    /\ lastRet = "round"
    /\ nFail = MaxFail
    /\ ~ctxDone
    /\ watch = "open"

\* C7: cancellation fast path.  A call made with the context already
\* cancelled only passes through dial and the retry label (no Dial, Watch,
\* Send, Recv or sleep, hence no change of the tree) and returns canceled with
\* a closed, empty channel and no goroutine.
C7_FastPath ==
    (nCalls > 0 /\ call.startCanceled) =>
        /\ pc \in {"dial", "retry", "idle"}
        /\ ctxDone
        /\ grp[results].pc = "none"
        /\ emitted[results] = << >>
        /\ chans[results].buf = << >>
        /\ pc = "idle" => lastRet = "canceled" /\ chans[results].closed

\* The fast path was taken by a later call, with a stream left open by an
\* earlier round.
C7_Witness ==
    /\ nCalls > 1
    /\ call.startCanceled
    /\ pc = "idle"
    /\ lastRet = "canceled"
    /\ watch = "open"
    /\ chans[results].closed

\* C8: Next drains the channel.  Next returns its list only once the channel
\* is closed, the list is everything the goroutine sent, in order, and a Next
\* that is draining does return; a cancelled Next returns no items.
C8_NextDrainsAll ==
    /\ [](nextRet = "items" =>
             chans[results].closed /\ items = emitted[results])
    /\ [](nextRet = "canceled" => items = << >>)
    /\ (pc = "drain") ~> (pc = "idle" /\ nextRet = "items")

\* C9: channel protocol.  A channel is closed at most once, nothing is sent
\* on it after the close, what is sent is bounded by the entries of the tree,
\* a closed channel was closed by the fast path (no goroutine, nothing sent)
\* or by its goroutine when it stopped, and a goroutine that finished has
\* closed its channel.
C9_QueueProtocol ==
    \A i \in ChanIds :
        /\ chans[i].closes <= 1
        /\ chans[i].closed <=> chans[i].closes = 1
        /\ ~chans[i].lateSend
        /\ Len(chans[i].buf) <= QueueCap
        /\ Len(emitted[i]) <= Cardinality(Paths) + BulkOf(i)
        /\ chans[i].closed =>
              \/ grp[i].pc = "none" /\ emitted[i] = << >>
              \/ Stopped(i)
        /\ Stopped(i) => chans[i].closed

\* A goroutine that sent several aggregates has finished and closed the
\* channel while aggregates still wait in it.
C9_Witness ==
    \E i \in ChanIds :
        /\ grp[i].pc = "done"
        /\ Len(emitted[i]) > 1
        /\ chans[i].closes = 1
        /\ chans[i].buf # << >>

\* C10 as claimed: a round in which the Sync came with no Set or Delete before
\* it emits no aggregate.
C10_EmptyRoundEmptyList ==
    \A i \in ChanIds :
        (Stopped(i) /\ sync[i].roundEmpty) => emitted[i] = << >>

\* C10 as amended: a round in which the Sync came with no Set or Delete
\* received since the stream was connected emits no aggregate, and Next
\* returns an empty list for it.
C10_EmptyStreamEmptyList ==
    /\ \A i \in ChanIds :
          (grp[i].pc # "none" /\ sync[i].streamEmpty) =>
              emitted[i] = << >> /\ grp[i].pc # "panic"
    /\ (nextRet = "items" /\ sync[results].streamEmpty) => items = << >>

\* The goroutine of a round with nothing received since the connect has
\* finished, in a call that had to reconnect after operations were applied.
C10_Witness ==
    \E i \in ChanIds :
        /\ grp[i].pc = "done"
        /\ sync[i].streamEmpty
        /\ chans[i].closed
        /\ call.failedMidRound

\* What a received operation may change: a step of the receive loop that
\* changes none of these changes nothing.
RecvVars == << data, sinceConn, raced, stream >>

\* C11: replace idempotence and key uniqueness.  A Set that decodes puts its
\* value at its path and changes no other entry: the tree holds the entries
\* it held plus that path, once; applying the same Set again to the result
\* changes nothing, and a Set of the value the path already holds leaves the
\* tree as it was.  In every step an entry's value changes only to the value
\* of a Set received for its path (or the entry goes away), so an entry
\* always holds the value of the latest Set decoded for its path.
C11_SetReplaces ==
    [][/\ (pc = "recv" /\ RecvVars' # RecvVars) =>
             \A k \in SetKinds, p \in Paths, b \in PayloadBytes :
                 (Decode(k, b) # None /\ RecvSet(k, p, b)) =>
                     /\ data'[p] = Decode(k, b)
                     /\ \A q \in Paths \ {p} : data'[q] = data[q]
                     /\ Keys(data') = Keys(data) \cup {p}
                     /\ ApplySet(data', k, p, b) = data'
                     /\ data[p] = Decode(k, b) => data' = data
       /\ data' # data =>
             \A q \in Paths :
                 data'[q] # data[q] =>
                     \/ data'[q] = None
                     \/ \E k \in SetKinds, b \in PayloadBytes :
                            RecvSet(k, q, b) /\ data'[q] = Decode(k, b)
      ]_vars

\* The last operation received was a Set of the value its path already held,
\* in a tree with other entries.
C11_Witness ==
    /\ pc = "recv"
    /\ stream.last = "same"
    /\ Cardinality(Keys(data)) > 1

\* C12: Delete no-op.  A Delete received for a path the tree does not hold
\* leaves the tree as it was, fails nothing (no failure is counted, the
\* stream and the connection stay open, nothing panics, the call does not
\* return) and the loop is back at its Recv.
C12_DeleteAbsentNoop ==
    [][(pc = "recv" /\ RecvVars' # RecvVars) =>
          \A p \in Paths :
              (data[p] = None /\ RecvDelete(p)) =>
                  /\ data' = data
                  /\ dataNil' = dataNil
                  /\ pc' = "recv"
                  /\ watch' = "open" /\ conn' = conn
                  /\ nFail' = nFail
                  /\ ~crashed'
                  /\ lastRet' = lastRet
      ]_vars

\* The last operation received was a Delete of a path the tree did not
\* hold, while it held other entries, and the loop is at its Recv.
C12_Witness ==
    /\ pc = "recv"
    /\ stream.last = "noop"
    /\ data # EmptyStore
    /\ watch = "open"

\* The goroutine of channel i has been started and has not stopped.
Running(i) == grp[i].pc \in {"start", "ascend", "flush"}

\* C13: the send on the channel is a cancellation checkpoint.  Once the
\* context is cancelled a goroutine that is running, and so one that waits
\* to send on a full channel no one reads, stops (or the process is over).
\* Checked on rounds that hold more Services than the channel has room for.
C13_SendReleasedByCancel ==
    \A i \in ChanIds : (ctxDone /\ Running(i)) ~> (Stopped(i) \/ crashed)

\* C14: no read/write race on the tree.  Whatever the caller does after
\* NextCh has returned, no goroutine is inside Ascend on a tree while the
\* receive loop changes that tree, and the tree a goroutine traverses is the
\* one of its own round, as it stood at the Sync.
C14_NoStoreRace ==
    /\ ~raced
    /\ \A i \in ChanIds : grp[i].pc = "ascend" => TreeOf(i) = sync[i].expect

\* The caller is inside dial or postError.
Connecting == pc \in {"dial", "watch", "sleep", "posterr"}

\* C15: Canceled is terminal for connecting.  Once the context is cancelled
\* no transport connection is dialed and no stream open is started (none
\* succeeds and none fails, closing its connection), and a caller inside dial
\* or postError is released: its call returns canceled.
C15_CanceledIsTerminal ==
    /\ [][ctxDone =>
             /\ nOpen' <= nOpen
             /\ ~(conn # "open" /\ conn' = "open")
             /\ ~(watch = "nil" /\ watch' = "open")
             /\ ~(conn # "closed" /\ conn' = "closed")
         ]_vars
    /\ (ctxDone /\ Connecting) ~> (pc = "idle" /\ lastRet = "canceled")

\* C16: no backoff sleep once cancelled.  errorSleep is never entered with a
\* cancelled context, be it after a failed Dial, after a failed Watch or in
\* postError; dial and postError then return without sleeping.
C16_NoSleepOnceCancelled ==
    [][(pc # "sleep" /\ pc' = "sleep") => ~ctxDone]_vars

\* C17: dropped operations.  A Set of a set that is neither ServicesSet nor
\* EndpointsSet, and a Set whose bytes do not parse, leave the tree as it
\* was, count no failure, keep the stream and the connection, start no
\* goroutine and do not make the call return: the loop is back at its Recv,
\* where a Sync completes the round.
C17_DroppedSetNoEffect ==
    [][(/\ pc = "recv" /\ RecvVars' # RecvVars
        /\ \E k \in SetKinds, p \in Paths, b \in PayloadBytes :
               (k = "OtherSet" \/ b = BadBytes) /\ RecvSet(k, p, b)) =>
           /\ data' = data
           /\ dataNil' = dataNil
           /\ pc' = "recv"
           /\ watch' = "open" /\ conn' = conn
           /\ nFail' = nFail
           /\ grp' = grp
           /\ lastRet' = lastRet
           /\ ~crashed'
      ]_vars

\* The last operation received was a Set that was dropped, the tree holds
\* the entries it held and the loop is at its Recv on the open stream.
C17_Witness ==
    /\ pc = "recv"
    /\ stream.last = "drop"
    /\ data # EmptyStore
    /\ watch = "open"
    /\ nFail = 0

\* a is the beginning of b.
IsPrefix(a, b) == Len(a) <= Len(b) /\ SubSeq(b, 1, Len(a)) = a

\* C18: lifetime of the tree.  The tree is made (empty) in the step that
\* opens the stream and in no other; every other step that changes it is a
\* Set or Delete of the receive loop and changes one entry; the Sync changes
\* nothing.  So the tree always holds the effect of every operation received
\* since the stream was opened, whatever the rounds, and the aggregates a
\* goroutine emits are those of that tree as it stood at the Sync of its
\* round: the beginning of them while it runs, all of them once it is done.
C18_StoreLifetime ==
    /\ [](~dataNil => data = sinceConn)
    /\ [](dataNil => watch = "nil" /\ data = EmptyStore)
    /\ [](\A i \in ChanIds :
             /\ IsPrefix(emitted[i], ExpectedAggregates(sync[i].expect))
             /\ grp[i].pc = "done" =>
                    emitted[i] = ExpectedAggregates(sync[i].expect))
    /\ [][/\ (watch = "nil" /\ watch' = "open") =>
                 data' = EmptyStore /\ ~dataNil'
          /\ ~(watch = "nil" /\ watch' = "open") =>
                 /\ dataNil' = dataNil
                 /\ Cardinality({p \in Paths : data'[p] # data[p]}) <= 1
                 /\ data' # data => pc = "recv" /\ pc' = "recv"
          /\ RecvSync => data' = data
         ]_vars

\* A second round on the same stream brought no operation, and its
\* goroutine has emitted the aggregates of the entries of the first round.
C18_Witness ==
    /\ nCalls = 2
    /\ grp[results].pc = "done"
    /\ sync[results].roundEmpty
    /\ ~sync[results].streamEmpty
    /\ emitted[results] # << >>
    /\ data = sync[results].expect

\* C19: no use of an absent stream or tree.  Whenever the caller is at the
\* Send or at the Recv, epc.watch is a stream (on an open connection) and
\* epc.data a tree, whatever failures and cancellations came before; and the
\* tree exists when Next reads its length and when a goroutine traverses it.
C19_NoAbsentStreamOrStore ==
    /\ pc \in {"send", "recv"} => watch = "open" /\ conn = "open" /\ ~dataNil
    /\ watch = "open" => ~dataNil
    /\ pc = "drain" => ~dataNil
    /\ \A i \in ChanIds : Running(i) => ~dataNil

\* A Recv failed in the middle of a round, Cancel came, postError returned
\* without a stream and the call has returned canceled, with no Send on the
\* absent stream.
C19_Witness ==
    /\ Returned
    /\ lastRet = "canceled"
    /\ call.failedMidRound
    /\ call.cancelInFlight
    /\ watch = "nil"
    /\ conn = "nil"
    /\ ~dataNil

\* C20: one transport connection.  At most one connection is open, and it
\* is the one epc.conn refers to: a connection whose Watch failed is closed
\* (epc.conn still refers to it) and postError closes and forgets the
\* connection, before dial dials again; a stream is a stream of the open
\* connection.
C20_OneConnection ==
    /\ nOpen \in {0, 1}
    /\ nOpen = 1 <=> conn = "open"
    /\ pc \in {"dial", "sleep"} => nOpen = 0
    /\ watch = "open" => conn = "open"
    /\ conn = "closed" => watch = "nil"

\* A Watch failed, its connection was closed, the sleep is over and dial
\* is about to dial again with no connection open.
C20_Witness ==
    /\ pc = "dial"
    /\ conn = "closed"
    /\ nOpen = 0
    /\ watch = "nil"
    /\ nFail > 0
    /\ ~ctxDone

====
